---- MODULE Spec2Model ----
(***************************************************************************)
(* Shared clipboard collections: the create / read / add-item / delete-item *)
(* route handlers and the Redis commands they issue.  Every `await` on a   *)
(* store command is one step of a request; the store connection is the     *)
(* module-level singleton of lib/redis, one per server process.  Time is    *)
(* counted in milliseconds.                                                 *)
(***************************************************************************)
EXTENDS Integers, Sequences, FiniteSets

\* ---------------------------------------------------------------- bounds
MaxReq == 3
MaxColl == 2
NumProcs == 2
MaxTicks == 3
\* Collections of the runs that follow one collection closely.
FewColl == 1

Reqs == 1..MaxReq
\* Collection ids: 1..MaxColl are handed out by create, 0 never is.
Keys == 0..MaxColl
Procs == 1..NumProcs

\* ------------------------------------------------------ program constants
expirationInSeconds == 7 * 24 * 60 * 60

\* Redis replies of TTL for a key without expiry and for a missing key.
TTL_NO_EXPIRY == 0 - 1
TTL_NO_KEY == 0 - 2

\* A string field the JSON object does not carry.
Undefined == "undefined"

\* An id no item ever gets (a client asking for an item that never existed),
\* and the id field of a body that carries none.
NoSuchId == 0

\* History marker: the step has not happened; a timestamp field not carried.
Never == 0 - 1

\* Request bodies a client sends to the add route.
TextBody == [type |-> "text", content |-> "hello", htmlContent |-> Undefined,
             id |-> NoSuchId, createdAt |-> Never]

Bodies == { TextBody }

\* type: 'text' | 'url' | 'html'
ItemTypes == {"text", "url", "html"}

\* Bodies of every shape the route's validation lets through: rich text with
\* and without its markup, plain text carrying markup, a body that brings
\* its own id and createdAt, and a body whose type is none of ItemTypes.
AcceptedBodies ==
    { TextBody,
      [TextBody EXCEPT !.type = "html", !.htmlContent = "<b>hello</b>"],
      [TextBody EXCEPT !.type = "html"],
      [TextBody EXCEPT !.htmlContent = "<b>hello</b>"],
      [TextBody EXCEPT !.id = 1, !.createdAt = 0 - 7],
      [TextBody EXCEPT !.type = "image"] }

\* Bodies the validation rejects: no type, no string content.
RejectedBodies ==
    { [TextBody EXCEPT !.type = Undefined],
      [TextBody EXCEPT !.content = Undefined] }

\* (a validation that does not look at content)
InvalidBody_lax(newItemData) == newItemData.type = Undefined

\* !newItemData || typeof newItemData.content !== 'string' || !newItemData.type
InvalidBody(newItemData) ==
    newItemData.content = Undefined \/ newItemData.type = Undefined

\* Elapsed time between two steps, in milliseconds.
Deltas == { 500, expirationInSeconds * 1000 - 500 }

\* The clock stops one second after the lifetime of a collection created at 0.
Horizon == expirationInSeconds * 1000 + 1000

VARIABLES
    store,      \* key -> [present, raw, id, items, createdAt, exp]: the value
                \* and expiry under clip:<id>
    conn,       \* process -> [watching, dirty]: WATCH state of its one connection
    req,        \* request slot -> the handler's position and locals
    nColl,      \* number of collections created so far
    nextId,     \* next item id crypto.randomUUID() hands out
    now,        \* wall clock, ms
    ticks,      \* number of clock advances so far
    ver,        \* history: key -> number of writes committed to it
                \* (req.watchedAt, req.readAt: its value at the request's
                \*  watch and at its read;
                \*  req.ttlBefore: TTL of the key when the request arrived)
    expected,   \* history: key -> items after the acknowledged requests, in commit order
    born        \* history: key -> time its create committed

vars == <<store, conn, req, nColl, nextId, now, ticks, ver, expected, born>>

\* ------------------------------------------------------------ store model
NoExpiry == 0 - 1

\* What the string under a key is: the JSON of a collection record, JSON of
\* something else ({}), or no JSON at all.
Raws == {"record", "nonrecord", "malformed"}

Absent == [present |-> FALSE, raw |-> "none", id |-> 0, items |-> <<>>,
           createdAt |-> Never, exp |-> NoExpiry]

NoItem == [id |-> NoSuchId, type |-> "none", content |-> "", htmlContent |-> Undefined,
           createdAt |-> Never]

\* The parsed value of a key that holds no collection record.
NoCollection == [raw |-> "none", id |-> 0, items |-> <<>>, createdAt |-> Never]

IdleConn == [watching |-> {}, dirty |-> FALSE]

IdleReq == [pc |-> "idle", op |-> "none", proto |-> "none", proc |-> 0, collectionId |-> 0,
            itemId |-> NoSuchId, newItemData |-> NoItem, newItem |-> NoItem,
            currentCollection |-> NoCollection,
            currentTTL |-> 0, status |-> 0,
            ttlBefore |-> 0, watchedAt |-> Never, readAt |-> Never]

\* GET key, parsed: the collection record under the key.
RedisGet(st, k) ==
    [raw |-> st[k].raw, id |-> st[k].id, items |-> st[k].items,
     createdAt |-> st[k].createdAt]

\* TTL key: -2 for a missing key, -1 without expiry, else the remaining
\* time rounded to the nearest second.
RedisTTL(st, k, t) ==
    IF ~st[k].present THEN TTL_NO_KEY
    ELSE IF st[k].exp = NoExpiry THEN TTL_NO_EXPIRY
    ELSE (st[k].exp - t + 500) \div 1000

\* SET key value: stores the value and discards any expiry the key had.
RedisSet(st, k, value) ==
    [st EXCEPT ![k] = [present |-> TRUE, raw |-> value.raw, id |-> value.id,
                       items |-> value.items, createdAt |-> value.createdAt,
                       exp |-> NoExpiry]]

\* (a store that takes the command and sets no expiry)
RedisExpire_noop(st, k, seconds, t) == st

\* EXPIRE key seconds / SET key value EX seconds.
RedisExpire(st, k, seconds, t) ==
    [st EXCEPT ![k].exp = t + seconds * 1000]

\* A write to k flags every connection that watches k.
TouchWatchers(cn, k) ==
    [p \in Procs |-> IF k \in cn[p].watching
                     THEN [cn[p] EXCEPT !.dirty = TRUE] ELSE cn[p]]

\* UNWATCH, and the end of every EXEC: the connection forgets all its watches.
RedisUnwatch(cn, p) == [cn EXCEPT ![p] = IdleConn]

\* WATCH key on connection p.
RedisWatch(cn, p, k) == [cn EXCEPT ![p].watching = @ \cup {k}]

\* ---------------------------------------------------------------- helpers
ItemIds(its) == { its[i].id : i \in 1..Len(its) }

\* items.filter(item => item.id !== itemId)
RECURSIVE FilterOut(_, _)
FilterOut(its, id) ==
    IF its = <<>> THEN <<>>
    ELSE IF Head(its).id = id THEN FilterOut(Tail(its), id)
    ELSE <<Head(its)>> \o FilterOut(Tail(its), id)

\* (the add route with the new item put last instead of first)
Prepend_append(item, its) == its \o <<item>>

\* (the add route with the new item put in twice)
Prepend_twice(item, its) == <<item, item>> \o its

\* [newItem, ...currentCollection.items]
Prepend(item, its) == <<item>> \o its

\* (the add route keeping the id and createdAt the body brought)
NewItem_fromBody(newItemData, id, t) ==
    IF newItemData.id = NoSuchId THEN [newItemData EXCEPT !.id = id, !.createdAt = t]
    ELSE newItemData

\* { ...newItemData, id: crypto.randomUUID(), createdAt: new Date().toISOString() }
NewItem(newItemData, id, t) == [newItemData EXCEPT !.id = id, !.createdAt = t]

\* { ...currentCollection, items: updatedItems }
UpdatedCollection(currentCollection, updatedItems) ==
    [currentCollection EXCEPT !.items = updatedItems]

\* (the create route writing a record without its id)
NewCollection_noId(collectionId, t) ==
    [raw |-> "record", id |-> NoSuchId, items |-> <<>>, createdAt |-> t]

\* { id: collectionId, items: [], createdAt: now }
NewCollection(collectionId, t) ==
    [raw |-> "record", id |-> collectionId, items |-> <<>>, createdAt |-> t]

\* Requests start in slot order; a slot is used once.
CanStart(r) ==
    /\ req[r].pc = "idle"
    /\ \A q \in Reqs : q < r => req[q].pc # "idle"

\* ------------------------------------------------------------------- Init
Init ==
    /\ store = [k \in Keys |-> Absent]
    /\ conn = [p \in Procs |-> IdleConn]
    /\ req = [r \in Reqs |-> IdleReq]
    /\ nColl = 0
    /\ nextId = 1
    /\ now = 0
    /\ ticks = 0
    /\ ver = [k \in Keys |-> 0]
    /\ expected = [k \in Keys |-> <<>>]
    /\ born = [k \in Keys |-> 0]

\* ----------------------------------------------------------------- create
\* POST /api/clip/create: one SET key value EX 604800.
Create ==
    /\ nColl < MaxColl
    /\ LET collectionKey == nColl + 1 IN
        /\ store' = RedisExpire(RedisSet(store, collectionKey,
                                         NewCollection(collectionKey, now)),
                                collectionKey, expirationInSeconds, now)
        /\ conn' = TouchWatchers(conn, collectionKey)
        /\ ver' = [ver EXCEPT ![collectionKey] = @ + 1]
        /\ expected' = [expected EXCEPT ![collectionKey] = <<>>]
        /\ born' = [born EXCEPT ![collectionKey] = now]
    /\ nColl' = nColl + 1
    /\ UNCHANGED <<req, nextId, now, ticks>>

\* (a handler that starts over when its transaction is aborted)
Finish_retry(rq, st) ==
    IF st = 409 THEN [rq EXCEPT !.pc = "get"]
    ELSE [rq EXCEPT !.pc = "done", !.status = st, !.proc = 0,
                    !.currentCollection = NoCollection,
                    !.currentTTL = 0, !.ttlBefore = 0, !.watchedAt = Never]

\* Replies of the create route's SET: acknowledged, not acknowledged, or the
\* command rejects (store unavailable).
SetResults == {"OK", "nil", "rejects"}

\* Whether NEXT_PUBLIC_BASE_URL is configured.
BaseUrls == {"https://app.example", Undefined}

\* (a create route that answers 500 to a reply other than OK after the
\* record was stored all the same)
CreateRoute_stored(r, baseUrl, setResult) ==
    /\ CanStart(r)
    /\ nColl < MaxColl
    /\ LET collectionKey == nColl + 1 IN
        /\ store' = RedisExpire(RedisSet(store, collectionKey,
                                         NewCollection(collectionKey, now)),
                                collectionKey, expirationInSeconds, now)
        /\ conn' = TouchWatchers(conn, collectionKey)
        /\ ver' = [ver EXCEPT ![collectionKey] = @ + 1]
        /\ expected' = [expected EXCEPT ![collectionKey] = <<>>]
        /\ born' = [born EXCEPT ![collectionKey] = now]
        /\ req' = [req EXCEPT ![r] = [IdleReq EXCEPT !.pc = "done", !.op = "create",
                       !.proto = "set",
                       !.collectionId = IF setResult = "OK" THEN collectionKey ELSE 0,
                       !.status = IF setResult = "OK" THEN 201 ELSE 500]]
    /\ nColl' = nColl + 1
    /\ UNCHANGED <<nextId, now, ticks>>

\* POST /api/clip/create as a request: SET key value EX 604800; a reply
\* other than OK or a rejected command -> 500; else 201 with the id, with
\* the absolute share URL or, without a base URL, the relative one.
CreateRoute(r, baseUrl, setResult) ==
    /\ CanStart(r)
    /\ nColl < MaxColl
    /\ LET collectionKey == nColl + 1 IN
        IF setResult = "OK"
        THEN /\ store' = RedisExpire(RedisSet(store, collectionKey,
                                              NewCollection(collectionKey, now)),
                                     collectionKey, expirationInSeconds, now)
             /\ conn' = TouchWatchers(conn, collectionKey)
             /\ ver' = [ver EXCEPT ![collectionKey] = @ + 1]
             /\ expected' = [expected EXCEPT ![collectionKey] = <<>>]
             /\ born' = [born EXCEPT ![collectionKey] = now]
             /\ nColl' = nColl + 1
             /\ req' = [req EXCEPT ![r] = [IdleReq EXCEPT !.pc = "done", !.op = "create",
                            !.proto = "set", !.collectionId = collectionKey,
                            !.status = 201]]
        ELSE /\ req' = [req EXCEPT ![r] = [IdleReq EXCEPT !.pc = "done", !.op = "create",
                            !.proto = "set", !.status = 500]]
             /\ UNCHANGED <<store, conn, ver, expected, born, nColl>>
    /\ UNCHANGED <<nextId, now, ticks>>

\* The create route that builds the share URL first: without a base URL it
\* answers 500 before any store command.
CreateChecked(r, baseUrl, setResult) ==
    IF baseUrl = Undefined
    THEN /\ CanStart(r)
         /\ req' = [req EXCEPT ![r] = [IdleReq EXCEPT !.pc = "done", !.op = "create",
                        !.proto = "set", !.status = 500]]
         /\ UNCHANGED <<store, conn, nColl, nextId, now, ticks, ver, expected, born>>
    ELSE CreateRoute(r, baseUrl, setResult)

\* What a finished request keeps: its outcome and its history marks.
Finish(rq, st) ==
    [rq EXCEPT !.pc = "done", !.status = st, !.proc = 0,
               !.currentCollection = NoCollection,
               !.currentTTL = 0, !.ttlBefore = 0, !.watchedAt = Never]

\* ------------------------------------------------------------------- read
\* (a read that gives the key a new lifetime)
Read_refresh(r, k) ==
    /\ CanStart(r)
    /\ store[k].present
    /\ store' = RedisExpire(store, k, expirationInSeconds, now)
    /\ req' = [req EXCEPT ![r] = [IdleReq EXCEPT !.op = "read", !.proto = "get",
                   !.collectionId = k, !.pc = "done", !.status = 200,
                   !.readAt = ver[k]]]
    /\ UNCHANGED <<conn, nColl, nextId, now, ticks, ver, expected, born>>

\* GET /api/clip/[id]: await redis.get(key); null -> 404, JSON.parse throws
\* -> 500, else 200 with whatever was parsed.
Read(r, k) ==
    /\ CanStart(r)
    /\ LET rq == [IdleReq EXCEPT !.op = "read", !.proto = "get", !.collectionId = k,
                                 !.pc = "done"] IN
        IF ~store[k].present
        THEN req' = [req EXCEPT ![r] = [rq EXCEPT !.status = 404]]
        ELSE IF store[k].raw = "malformed"
        THEN req' = [req EXCEPT ![r] = [rq EXCEPT !.status = 500, !.readAt = ver[k]]]
        ELSE req' = [req EXCEPT ![r] = [rq EXCEPT !.status = 200, !.readAt = ver[k],
                                          !.currentCollection = RedisGet(store, k)]]
    /\ UNCHANGED <<store, conn, nColl, nextId, now, ticks, ver, expected, born>>

\* ------------------------------------------- add item (watch/multi/exec)
\* POST /api/clip/add/[id] with a body the validation rejects: 400.
AddInvalid(r, k, body) ==
    /\ CanStart(r)
    /\ InvalidBody(body)
    /\ req' = [req EXCEPT ![r] = [IdleReq EXCEPT !.pc = "done", !.op = "add",
                   !.proto = "watch", !.collectionId = k, !.newItemData = body,
                   !.status = 400]]
    /\ UNCHANGED <<store, conn, nColl, nextId, now, ticks, ver, expected, born>>

\* POST /api/clip/add/[id]: a valid body arrives; await redis.watch(key).
AddWatch(r, p, k, body) ==
    /\ CanStart(r)
    /\ ~InvalidBody(body)
    /\ conn' = RedisWatch(conn, p, k)
    /\ req' = [req EXCEPT ![r] = [IdleReq EXCEPT !.pc = "get", !.op = "add", !.proto = "watch",
                   !.ttlBefore = RedisTTL(store, k, now), !.watchedAt = ver[k],
                   !.proc = p, !.collectionId = k,
                   !.newItemData = body]]
    /\ UNCHANGED <<store, nColl, nextId, now, ticks, ver, expected, born>>

\* await redis.get(key); null -> unwatch and 404; JSON.parse throws ->
\* unwatch and 500; no items to spread -> TypeError, caught: unwatch and 500;
\* else build newItem.
AddGet(r) ==
    /\ req[r].pc = "get" /\ req[r].op = "add" /\ req[r].proto = "watch"
    /\ LET k == req[r].collectionId IN
        IF ~store[k].present
        THEN /\ req' = [req EXCEPT ![r].pc = "unwatch", ![r].status = 404]
             /\ UNCHANGED nextId
        ELSE IF store[k].raw = "malformed"
        THEN /\ req' = [req EXCEPT ![r].pc = "unwatch", ![r].status = 500,
                                   ![r].readAt = ver[k]]
             /\ UNCHANGED nextId
        ELSE IF store[k].raw = "nonrecord"
        THEN /\ req' = [req EXCEPT ![r].pc = "unwatch", ![r].status = 500,
                                   ![r].readAt = ver[k],
                                   ![r].newItem = NewItem(req[r].newItemData, nextId, now)]
             /\ nextId' = nextId + 1
        ELSE /\ req' = [req EXCEPT ![r].pc = "ttl",
                            ![r].currentCollection = RedisGet(store, k),
                            ![r].newItem = NewItem(req[r].newItemData, nextId, now),
                            ![r].readAt = ver[k]]
             /\ nextId' = nextId + 1
    /\ UNCHANGED <<store, conn, nColl, now, ticks, ver, expected, born>>

\* await redis.unwatch() on a failure path, then return the failure.
AddUnwatch(r) ==
    /\ req[r].pc = "unwatch" /\ req[r].op = "add" /\ req[r].proto = "watch"
    /\ conn' = RedisUnwatch(conn, req[r].proc)
    /\ req' = [req EXCEPT ![r] = Finish(@, req[r].status)]
    /\ UNCHANGED <<store, nColl, nextId, now, ticks, ver, expected, born>>

\* const currentTTL = await redis.ttl(key)
AddTtl(r) ==
    /\ req[r].pc = "ttl" /\ req[r].op = "add" /\ req[r].proto = "watch"
    /\ req' = [req EXCEPT ![r].pc = "exec",
                   ![r].currentTTL = RedisTTL(store, req[r].collectionId, now)]
    /\ UNCHANGED <<store, conn, nColl, nextId, now, ticks, ver, expected, born>>

\* (a transaction that gives a key without TTL the default lifetime)
Transaction_defaultTtl(st, k, updatedCollection, currentTTL, t) ==
    IF currentTTL > 0
    THEN RedisExpire(RedisSet(st, k, updatedCollection), k, currentTTL, t)
    ELSE RedisExpire(RedisSet(st, k, updatedCollection), k, expirationInSeconds, t)

\* The queued transaction: SET key value, and EXPIRE key ttl when ttl > 0.
Transaction(st, k, updatedCollection, currentTTL, t) ==
    IF currentTTL > 0
    THEN RedisExpire(RedisSet(st, k, updatedCollection), k, currentTTL, t)
    ELSE RedisSet(st, k, updatedCollection)

\* EXEC on connection p: aborted (null) when a watched key was touched.
ExecAborts(cn, p) == cn[p].dirty

\* await multi.exec(): null -> 409, else the write is committed -> 201.
AddExec(r) ==
    /\ req[r].pc = "exec" /\ req[r].op = "add" /\ req[r].proto = "watch"
    /\ LET k == req[r].collectionId
           p == req[r].proc
           updatedItems == Prepend(req[r].newItem, req[r].currentCollection.items)
           updatedCollection == UpdatedCollection(req[r].currentCollection, updatedItems)
       IN IF ExecAborts(conn, p)
          THEN /\ conn' = RedisUnwatch(conn, p)
               /\ req' = [req EXCEPT ![r] = Finish(@, 409)]
               /\ UNCHANGED <<store, ver, expected>>
          ELSE /\ store' = Transaction(store, k, updatedCollection, req[r].currentTTL, now)
               /\ conn' = TouchWatchers(RedisUnwatch(conn, p), k)
               /\ req' = [req EXCEPT ![r] = Finish(@, 201)]
               /\ ver' = [ver EXCEPT ![k] = @ + 1]
               /\ expected' = [expected EXCEPT ![k] = Prepend(req[r].newItem, @)]
    /\ UNCHANGED <<nColl, nextId, now, ticks, born>>

\* (a catch block reached after the queued transaction was applied)
AddFail_applied(r) ==
    /\ req[r].pc = "exec" /\ req[r].op = "add" /\ req[r].proto = "watch"
    /\ store' = RedisSet(store, req[r].collectionId,
                         UpdatedCollection(req[r].currentCollection,
                             Prepend(req[r].newItem, req[r].currentCollection.items)))
    /\ req' = [req EXCEPT ![r].pc = "unwatch", ![r].status = 500]
    /\ UNCHANGED <<conn, nColl, nextId, now, ticks, ver, expected, born>>

\* A store command after the watch rejects: the catch block unwatches and
\* returns 500.
AddFail(r) ==
    /\ req[r].pc \in {"get", "ttl", "exec"} /\ req[r].op = "add" /\ req[r].proto = "watch"
    /\ req' = [req EXCEPT ![r].pc = "unwatch", ![r].status = 500]
    /\ UNCHANGED <<store, conn, nColl, nextId, now, ticks, ver, expected, born>>

\* ---------------------------------------- delete item (watch/multi/exec)
\* DELETE /api/clip/delete/[collectionId]/[itemId]: await redis.watch(key).
DelWatch(r, p, k, id) ==
    /\ CanStart(r)
    /\ conn' = RedisWatch(conn, p, k)
    /\ req' = [req EXCEPT ![r] = [IdleReq EXCEPT !.pc = "get", !.op = "delete", !.proto = "watch",
                   !.ttlBefore = RedisTTL(store, k, now), !.watchedAt = ver[k],
                   !.proc = p, !.collectionId = k, !.itemId = id]]
    /\ UNCHANGED <<store, nColl, nextId, now, ticks, ver, expected, born>>

\* await redis.get(key); null -> 404; JSON.parse throws -> 500; no items to
\* search -> TypeError, caught: 500; findIndex = -1 -> 404; each after unwatch.
DelGet(r) ==
    /\ req[r].pc = "get" /\ req[r].op = "delete" /\ req[r].proto = "watch"
    /\ LET k == req[r].collectionId IN
        IF ~store[k].present
        THEN req' = [req EXCEPT ![r].pc = "unwatch", ![r].status = 404]
        ELSE IF store[k].raw # "record"
        THEN req' = [req EXCEPT ![r].pc = "unwatch", ![r].status = 500,
                          ![r].readAt = ver[k]]
        ELSE IF req[r].itemId \notin ItemIds(store[k].items)
        THEN req' = [req EXCEPT ![r].pc = "unwatch", ![r].status = 404,
                          ![r].readAt = ver[k]]
        ELSE req' = [req EXCEPT ![r].pc = "ttl",
                          ![r].currentCollection = RedisGet(store, k),
                          ![r].readAt = ver[k]]
    /\ UNCHANGED <<store, conn, nColl, nextId, now, ticks, ver, expected, born>>

\* await redis.unwatch() on a failure path, then return the failure.
DelUnwatch(r) ==
    /\ req[r].pc = "unwatch" /\ req[r].op = "delete" /\ req[r].proto = "watch"
    /\ conn' = RedisUnwatch(conn, req[r].proc)
    /\ req' = [req EXCEPT ![r] = Finish(@, req[r].status)]
    /\ UNCHANGED <<store, nColl, nextId, now, ticks, ver, expected, born>>

\* const currentTTL = await redis.ttl(key)
DelTtl(r) ==
    /\ req[r].pc = "ttl" /\ req[r].op = "delete" /\ req[r].proto = "watch"
    /\ req' = [req EXCEPT ![r].pc = "exec",
                   ![r].currentTTL = RedisTTL(store, req[r].collectionId, now)]
    /\ UNCHANGED <<store, conn, nColl, nextId, now, ticks, ver, expected, born>>

\* await multi.exec(): null -> 409, else the write is committed -> 200.
DelExec(r) ==
    /\ req[r].pc = "exec" /\ req[r].op = "delete" /\ req[r].proto = "watch"
    /\ LET k == req[r].collectionId
           p == req[r].proc
           updatedItems == FilterOut(req[r].currentCollection.items, req[r].itemId)
           updatedCollection == UpdatedCollection(req[r].currentCollection, updatedItems)
       IN IF ExecAborts(conn, p)
          THEN /\ conn' = RedisUnwatch(conn, p)
               /\ req' = [req EXCEPT ![r] = Finish(@, 409)]
               /\ UNCHANGED <<store, ver, expected>>
          ELSE /\ store' = Transaction(store, k, updatedCollection, req[r].currentTTL, now)
               /\ conn' = TouchWatchers(RedisUnwatch(conn, p), k)
               /\ req' = [req EXCEPT ![r] = Finish(@, 200)]
               /\ ver' = [ver EXCEPT ![k] = @ + 1]
               /\ expected' = [expected EXCEPT ![k] = FilterOut(@, req[r].itemId)]
    /\ UNCHANGED <<nColl, nextId, now, ticks, born>>

\* A store command after the watch rejects: the catch block unwatches and
\* returns 500.
DelFail(r) ==
    /\ req[r].pc \in {"get", "ttl", "exec"} /\ req[r].op = "delete" /\ req[r].proto = "watch"
    /\ req' = [req EXCEPT ![r].pc = "unwatch", ![r].status = 500]
    /\ UNCHANGED <<store, conn, nColl, nextId, now, ticks, ver, expected, born>>

\* Item ids a client can name: those handed out so far, or one that never was.
KnownIds == 0..(nextId - 1)

\* Collection ids a client can name: those create has handed out, or one it
\* never did.
KnownKeys == 0..nColl

\* ------------------------------------------ earlier revisions of the routes
\* The transactional add and delete routes before their catch blocks got an
\* unwatch: a store command after the watch rejects and the handler returns
\* 500 as it stands.  Their other steps read as those of the routes above.
EarlyFail(r) ==
    /\ req[r].pc \in {"get", "ttl", "exec"} /\ req[r].proto = "watch"
    /\ req' = [req EXCEPT ![r] = Finish(@, 500)]
    /\ UNCHANGED <<store, conn, nColl, nextId, now, ticks, ver, expected, born>>

\* redis.set(key, value, currentTTL > 0 ? { ex: currentTTL } : {})
SetWithOptions(st, k, updatedCollection, currentTTL, t) ==
    IF currentTTL > 0
    THEN RedisExpire(RedisSet(st, k, updatedCollection), k, currentTTL, t)
    ELSE RedisSet(st, k, updatedCollection)

\* DELETE route without a transaction: await redis.get(key) and the lookup;
\* a value without items -> TypeError, caught: 500.
PlainDelGet(r, k, id) ==
    /\ CanStart(r)
    /\ LET rq == [IdleReq EXCEPT !.op = "delete", !.proto = "getset",
                                 !.ttlBefore = RedisTTL(store, k, now),
                                 !.collectionId = k, !.itemId = id] IN
        IF ~store[k].present
        THEN req' = [req EXCEPT ![r] = Finish(rq, 404)]
        ELSE IF store[k].raw # "record"
        THEN req' = [req EXCEPT ![r] = Finish([rq EXCEPT !.readAt = ver[k]], 500)]
        ELSE IF id \notin ItemIds(store[k].items)
        THEN req' = [req EXCEPT ![r] = Finish([rq EXCEPT !.readAt = ver[k]], 404)]
        ELSE req' = [req EXCEPT ![r] = [rq EXCEPT !.pc = "ttl",
                          !.currentCollection = RedisGet(store, k), !.readAt = ver[k]]]
    /\ UNCHANGED <<store, conn, nColl, nextId, now, ticks, ver, expected, born>>

\* const currentTTL = await redis.ttl(key)
PlainDelTtl(r) ==
    /\ req[r].pc = "ttl" /\ req[r].op = "delete" /\ req[r].proto = "getset"
    /\ req' = [req EXCEPT ![r].pc = "set",
                   ![r].currentTTL = RedisTTL(store, req[r].collectionId, now)]
    /\ UNCHANGED <<store, conn, nColl, nextId, now, ticks, ver, expected, born>>

\* await redis.set(key, JSON.stringify(updatedCollection), options) -> 200
PlainDelSet(r) ==
    /\ req[r].pc = "set" /\ req[r].op = "delete" /\ req[r].proto = "getset"
    /\ LET k == req[r].collectionId
           updatedItems == FilterOut(req[r].currentCollection.items, req[r].itemId)
           updatedCollection == UpdatedCollection(req[r].currentCollection, updatedItems)
       IN /\ store' = SetWithOptions(store, k, updatedCollection, req[r].currentTTL, now)
          /\ conn' = TouchWatchers(conn, k)
          /\ ver' = [ver EXCEPT ![k] = @ + 1]
          /\ expected' = [expected EXCEPT ![k] = FilterOut(@, req[r].itemId)]
    /\ req' = [req EXCEPT ![r] = Finish(@, 200)]
    /\ UNCHANGED <<nColl, nextId, now, ticks, born>>

\* POST add route without a transaction: await redis.get(key), build newItem;
\* a value without items -> TypeError, caught: 500.
PlainAddGet(r, k, body) ==
    /\ CanStart(r)
    /\ LET rq == [IdleReq EXCEPT !.op = "add", !.proto = "getset",
                                 !.ttlBefore = RedisTTL(store, k, now),
                                 !.collectionId = k] IN
        IF ~store[k].present
        THEN /\ req' = [req EXCEPT ![r] = Finish(rq, 404)]
             /\ UNCHANGED nextId
        ELSE IF store[k].raw # "record"
        THEN /\ req' = [req EXCEPT ![r] = Finish([rq EXCEPT !.readAt = ver[k]], 500)]
             /\ nextId' = nextId + 1
        ELSE /\ req' = [req EXCEPT ![r] = [rq EXCEPT !.pc = "ttl",
                            !.currentCollection = RedisGet(store, k),
                            !.newItemData = body,
                            !.newItem = NewItem(body, nextId, now),
                            !.readAt = ver[k]]]
             /\ nextId' = nextId + 1
    /\ UNCHANGED <<store, conn, nColl, now, ticks, ver, expected, born>>

\* const currentTTL = await redis.ttl(key)
PlainAddTtl(r) ==
    /\ req[r].pc = "ttl" /\ req[r].op = "add" /\ req[r].proto = "getset"
    /\ req' = [req EXCEPT ![r].pc = "set",
                   ![r].currentTTL = RedisTTL(store, req[r].collectionId, now)]
    /\ UNCHANGED <<store, conn, nColl, nextId, now, ticks, ver, expected, born>>

\* await redis.set(key, JSON.stringify(updatedCollection), options) -> 201
PlainAddSet(r) ==
    /\ req[r].pc = "set" /\ req[r].op = "add" /\ req[r].proto = "getset"
    /\ LET k == req[r].collectionId
           updatedItems == Prepend(req[r].newItem, req[r].currentCollection.items)
           updatedCollection == UpdatedCollection(req[r].currentCollection, updatedItems)
       IN /\ store' = SetWithOptions(store, k, updatedCollection, req[r].currentTTL, now)
          /\ conn' = TouchWatchers(conn, k)
          /\ ver' = [ver EXCEPT ![k] = @ + 1]
          /\ expected' = [expected EXCEPT ![k] = Prepend(req[r].newItem, @)]
    /\ req' = [req EXCEPT ![r] = Finish(@, 201)]
    /\ UNCHANGED <<nColl, nextId, now, ticks, born>>

\* First add route: the read is multi.get + exec, then build newItem.
FirstAddGet(r, k, body) ==
    /\ CanStart(r)
    /\ LET rq == [IdleReq EXCEPT !.op = "add", !.proto = "nottl",
                                 !.ttlBefore = RedisTTL(store, k, now),
                                 !.collectionId = k] IN
        IF ~store[k].present
        THEN /\ req' = [req EXCEPT ![r] = Finish(rq, 404)]
             /\ UNCHANGED nextId
        ELSE IF store[k].raw # "record"
        THEN /\ req' = [req EXCEPT ![r] = Finish([rq EXCEPT !.readAt = ver[k]], 500)]
             /\ nextId' = nextId + 1
        ELSE /\ req' = [req EXCEPT ![r] = [rq EXCEPT !.pc = "set",
                            !.currentCollection = RedisGet(store, k),
                            !.newItemData = body,
                            !.newItem = NewItem(body, nextId, now),
                            !.readAt = ver[k]]]
             /\ nextId' = nextId + 1
    /\ UNCHANGED <<store, conn, nColl, now, ticks, ver, expected, born>>

\* await redis.set(key, JSON.stringify(updatedCollection)) -> 201
FirstAddSet(r) ==
    /\ req[r].pc = "set" /\ req[r].op = "add" /\ req[r].proto = "nottl"
    /\ LET k == req[r].collectionId
           updatedItems == Prepend(req[r].newItem, req[r].currentCollection.items)
           updatedCollection == UpdatedCollection(req[r].currentCollection, updatedItems)
       IN /\ store' = RedisSet(store, k, updatedCollection)
          /\ conn' = TouchWatchers(conn, k)
          /\ ver' = [ver EXCEPT ![k] = @ + 1]
          /\ expected' = [expected EXCEPT ![k] = Prepend(req[r].newItem, @)]
    /\ req' = [req EXCEPT ![r] = Finish(@, 201)]
    /\ UNCHANGED <<nColl, nextId, now, ticks, born>>

\* ------------------------------------------------------------------- time
\* The clock advances; keys past their expiry are evicted, which counts as
\* a modification for connections watching them.
Expired(st, k, t) == st[k].present /\ st[k].exp # NoExpiry /\ t > st[k].exp

Tick(d) ==
    /\ ticks < MaxTicks
    /\ now + d <= Horizon
    /\ now' = now + d
    /\ ticks' = ticks + 1
    /\ store' = [k \in Keys |-> IF Expired(store, k, now + d) THEN Absent ELSE store[k]]
    /\ conn' = [p \in Procs |->
                  IF \E k \in conn[p].watching : Expired(store, k, now + d)
                  THEN [conn[p] EXCEPT !.dirty = TRUE] ELSE conn[p]]
    /\ UNCHANGED <<req, nColl, nextId, ver, expected, born>>

\* ------------------------------------------------------------ environment
\* Something other than these routes leaves a value under the key that is
\* not the JSON of a collection record.
Corrupt(k, raw) ==
    /\ store[k].present /\ store[k].raw = "record"
    /\ raw \in Raws \ {"record"}
    /\ store' = [store EXCEPT ![k].raw = raw, ![k].id = 0, ![k].items = <<>>,
                              ![k].createdAt = Never]
    /\ conn' = TouchWatchers(conn, k)
    /\ ver' = [ver EXCEPT ![k] = @ + 1]
    /\ UNCHANGED <<req, nColl, nextId, now, ticks, expected, born>>

\* ---------------------------------------------------------- serialization
\* The JSON text under a key, as its sequence of tokens.  A field whose
\* value is undefined is left out by JSON.stringify and is undefined again
\* in what JSON.parse returns.  Ids and ISO timestamps are string tokens;
\* the number they carry stands for their text.
Tok(kind, text, n) == [kind |-> kind, text |-> text, n |-> n]

Punct(c) == Tok("punct", c, 0)

Key(name) == Tok("key", name, 0)

Str(s) == Tok("string", s, 0)

IdText(id) == Tok("string", "uuid", id)

\* toISOString() of a time in ms.
IsoText(t) == Tok("string", "iso", t)

\* (a serializer that writes no htmlContent)
StringifyItem_noHtml(item) ==
    << Punct("{"), Key("type"), Str(item.type), Key("content"), Str(item.content),
       Key("id"), IdText(item.id), Key("createdAt"), IsoText(item.createdAt),
       Punct("}") >>

\* JSON.stringify of one item: the keys of the body in the order the client
\* sent them, then id and createdAt.
StringifyItem(item) ==
    << Punct("{"), Key("type"), Str(item.type), Key("content"), Str(item.content) >>
    \o (IF item.htmlContent = Undefined THEN <<>>
        ELSE << Key("htmlContent"), Str(item.htmlContent) >>)
    \o << Key("id"), IdText(item.id), Key("createdAt"), IsoText(item.createdAt),
          Punct("}") >>

RECURSIVE StringifyItems(_)
StringifyItems(its) ==
    IF its = <<>> THEN <<>>
    ELSE StringifyItem(Head(its)) \o StringifyItems(Tail(its))

\* JSON.stringify(updatedCollection): id, items, createdAt.
Stringify(collection) ==
    << Punct("{"), Key("id"), IdText(collection.id), Key("items"), Punct("[") >>
    \o StringifyItems(collection.items)
    \o << Punct("]"), Key("createdAt"), IsoText(collection.createdAt), Punct("}") >>

\* Index of the first token equal to tok, 0 if there is none.
IndexOf(toks, tok) ==
    IF \E i \in 1..Len(toks) : toks[i] = tok
    THEN CHOOSE i \in 1..Len(toks) :
            toks[i] = tok /\ \A j \in 1..(i - 1) : toks[j] # tok
    ELSE 0

\* The value token that follows the last key `name` among key/value pairs.
FieldOf(pairs, name, missing) ==
    LET at == { i \in 1..Len(pairs) : pairs[i] = Key(name) /\ i < Len(pairs) }
    IN IF at = {} THEN missing
       ELSE pairs[(CHOOSE i \in at : \A j \in at : j <= i) + 1]

\* JSON.parse of one item, from the key/value pairs between its braces.
ParseItem(pairs) ==
    [ id |-> FieldOf(pairs, "id", IdText(NoSuchId)).n,
      type |-> FieldOf(pairs, "type", Str(Undefined)).text,
      content |-> FieldOf(pairs, "content", Str(Undefined)).text,
      htmlContent |-> FieldOf(pairs, "htmlContent", Str(Undefined)).text,
      createdAt |-> FieldOf(pairs, "createdAt", IsoText(Never)).n ]

RECURSIVE ParseItems(_)
ParseItems(toks) ==
    IF toks = <<>> THEN <<>>
    ELSE LET close == IndexOf(toks, Punct("}"))
         IN << ParseItem(SubSeq(toks, 2, close - 1)) >>
            \o ParseItems(SubSeq(toks, close + 1, Len(toks)))

\* JSON.parse(rawCurrentCollection) as SharedClipCollection.
Parse(toks) ==
    LET open == IndexOf(toks, Punct("["))
        close == IndexOf(toks, Punct("]"))
        top == SubSeq(toks, 2, open - 2) \o SubSeq(toks, close + 1, Len(toks) - 1)
    IN [ raw |-> "record",
         id |-> FieldOf(top, "id", IdText(NoSuchId)).n,
         items |-> ParseItems(SubSeq(toks, open + 1, close - 1)),
         createdAt |-> FieldOf(top, "createdAt", IsoText(Never)).n ]

\* --------------------------------------------------------- specifications
Next ==
    \/ Create
    \/ \E r \in Reqs, p \in Procs, k \in KnownKeys, body \in Bodies : AddWatch(r, p, k, body)
    \/ \E r \in Reqs : AddGet(r)
    \/ \E r \in Reqs : AddUnwatch(r)
    \/ \E r \in Reqs : AddTtl(r)
    \/ \E r \in Reqs : AddExec(r)
    \/ \E r \in Reqs, p \in Procs, k \in KnownKeys, id \in KnownIds : DelWatch(r, p, k, id)
    \/ \E r \in Reqs : DelGet(r)
    \/ \E r \in Reqs : DelUnwatch(r)
    \/ \E r \in Reqs : DelTtl(r)
    \/ \E r \in Reqs : DelExec(r)

Spec == Init /\ [][Next]_vars

\* The routes as they stand under src/app/api/clip: add with a transaction,
\* delete without one.
NextRoutes ==
    \/ Create
    \/ \E r \in Reqs, p \in Procs, k \in KnownKeys, body \in Bodies : AddWatch(r, p, k, body)
    \/ \E r \in Reqs : AddGet(r)
    \/ \E r \in Reqs : AddUnwatch(r)
    \/ \E r \in Reqs : AddTtl(r)
    \/ \E r \in Reqs : AddExec(r)
    \/ \E r \in Reqs, k \in KnownKeys, id \in KnownIds : PlainDelGet(r, k, id)
    \/ \E r \in Reqs : PlainDelTtl(r)
    \/ \E r \in Reqs : PlainDelSet(r)

SpecRoutes == Init /\ [][NextRoutes]_vars

\* The routes of every revision in the repository.
NextAll ==
    \/ Next
    \/ \E r \in Reqs, k \in KnownKeys, id \in KnownIds : PlainDelGet(r, k, id)
    \/ \E r \in Reqs : PlainDelTtl(r)
    \/ \E r \in Reqs : PlainDelSet(r)
    \/ \E r \in Reqs, k \in KnownKeys, body \in Bodies : PlainAddGet(r, k, body)
    \/ \E r \in Reqs : PlainAddTtl(r)
    \/ \E r \in Reqs : PlainAddSet(r)
    \/ \E r \in Reqs, k \in KnownKeys, body \in Bodies : FirstAddGet(r, k, body)
    \/ \E r \in Reqs : FirstAddSet(r)

SpecAll == Init /\ [][NextAll]_vars

\* The current routes on one server process, with the clock running and the
\* collections 1..FewColl.
OneProc == { CHOOSE p \in Procs : TRUE }

NextT ==
    \/ nColl < FewColl /\ Create
    \/ \E r \in Reqs, p \in OneProc, k \in KnownKeys, body \in Bodies : AddWatch(r, p, k, body)
    \/ \E r \in Reqs : AddGet(r)
    \/ \E r \in Reqs : AddUnwatch(r)
    \/ \E r \in Reqs : AddTtl(r)
    \/ \E r \in Reqs : AddExec(r)
    \/ \E r \in Reqs, p \in OneProc, k \in KnownKeys, id \in KnownIds : DelWatch(r, p, k, id)
    \/ \E r \in Reqs : DelGet(r)
    \/ \E r \in Reqs : DelUnwatch(r)
    \/ \E r \in Reqs : DelTtl(r)
    \/ \E r \in Reqs : DelExec(r)
    \/ \E d \in Deltas : Tick(d)

SpecT == Init /\ [][NextT]_vars

\* The current routes with requests served one after the other: a request
\* starts only when no other is in flight.
NoneInFlight == \A q \in Reqs : req[q].pc \in {"idle", "done"}

NextSerial ==
    \/ Create
    \/ \E r \in Reqs, p \in Procs, k \in KnownKeys, body \in Bodies :
          NoneInFlight /\ AddWatch(r, p, k, body)
    \/ \E r \in Reqs : AddGet(r)
    \/ \E r \in Reqs : AddUnwatch(r)
    \/ \E r \in Reqs : AddTtl(r)
    \/ \E r \in Reqs : AddExec(r)
    \/ \E r \in Reqs, p \in Procs, k \in KnownKeys, id \in KnownIds :
          NoneInFlight /\ DelWatch(r, p, k, id)
    \/ \E r \in Reqs : DelGet(r)
    \/ \E r \in Reqs : DelUnwatch(r)
    \/ \E r \in Reqs : DelTtl(r)
    \/ \E r \in Reqs : DelExec(r)

SpecSerial == Init /\ [][NextSerial]_vars

\* The current routes with everything a client and the store can do to
\* them: reads, bodies the validation rejects, store commands that reject.
ApiBodies == Bodies \cup RejectedBodies

NextApi ==
    \/ nColl < FewColl /\ Create
    \/ \E r \in Reqs, k \in KnownKeys : Read(r, k)
    \/ \E r \in Reqs, k \in KnownKeys, body \in ApiBodies : AddInvalid(r, k, body)
    \/ \E r \in Reqs, p \in Procs, k \in KnownKeys, body \in ApiBodies : AddWatch(r, p, k, body)
    \/ \E r \in Reqs : AddGet(r)
    \/ \E r \in Reqs : AddUnwatch(r)
    \/ \E r \in Reqs : AddTtl(r)
    \/ \E r \in Reqs : AddExec(r)
    \/ \E r \in Reqs : AddFail(r)
    \/ \E r \in Reqs, p \in Procs, k \in KnownKeys, id \in KnownIds : DelWatch(r, p, k, id)
    \/ \E r \in Reqs : DelGet(r)
    \/ \E r \in Reqs : DelUnwatch(r)
    \/ \E r \in Reqs : DelTtl(r)
    \/ \E r \in Reqs : DelExec(r)
    \/ \E r \in Reqs : DelFail(r)

SpecApi == Init /\ [][NextApi]_vars

\* The transactional routes as they were before their catch blocks released
\* the watch.
NextEarly ==
    \/ nColl < FewColl /\ Create
    \/ \E r \in Reqs, p \in Procs, k \in KnownKeys, body \in Bodies : AddWatch(r, p, k, body)
    \/ \E r \in Reqs : AddGet(r)
    \/ \E r \in Reqs : AddUnwatch(r)
    \/ \E r \in Reqs : AddTtl(r)
    \/ \E r \in Reqs : AddExec(r)
    \/ \E r \in Reqs, p \in Procs, k \in KnownKeys, id \in KnownIds : DelWatch(r, p, k, id)
    \/ \E r \in Reqs : DelGet(r)
    \/ \E r \in Reqs : DelUnwatch(r)
    \/ \E r \in Reqs : DelTtl(r)
    \/ \E r \in Reqs : DelExec(r)
    \/ \E r \in Reqs : EarlyFail(r)

SpecEarly == Init /\ [][NextEarly]_vars

\* The current routes on a collection that already holds two items: the
\* state after one create and two adds served one after the other.
SeededItems == << NewItem(TextBody, 2, 0), NewItem(TextBody, 1, 0) >>

InitSeeded ==
    /\ store = [k \in Keys |->
                  IF k = 1
                  THEN [present |-> TRUE, raw |-> "record", id |-> 1,
                        items |-> SeededItems, createdAt |-> 0,
                        exp |-> expirationInSeconds * 1000]
                  ELSE Absent]
    /\ conn = [p \in Procs |-> IdleConn]
    /\ req = [r \in Reqs |-> IdleReq]
    /\ nColl = 1
    /\ nextId = 3
    /\ now = 0
    /\ ticks = 0
    /\ ver = [k \in Keys |-> IF k = 1 THEN 3 ELSE 0]
    /\ expected = [k \in Keys |-> IF k = 1 THEN SeededItems ELSE <<>>]
    /\ born = [k \in Keys |-> 0]

NextSeeded ==
    \/ \E r \in Reqs, p \in Procs, k \in KnownKeys, body \in Bodies : AddWatch(r, p, k, body)
    \/ \E r \in Reqs : AddGet(r)
    \/ \E r \in Reqs : AddUnwatch(r)
    \/ \E r \in Reqs : AddTtl(r)
    \/ \E r \in Reqs : AddExec(r)
    \/ \E r \in Reqs, p \in Procs, k \in KnownKeys, id \in KnownIds : DelWatch(r, p, k, id)
    \/ \E r \in Reqs : DelGet(r)
    \/ \E r \in Reqs : DelUnwatch(r)
    \/ \E r \in Reqs : DelTtl(r)
    \/ \E r \in Reqs : DelExec(r)

SpecSeeded == InitSeeded /\ [][NextSeeded]_vars

\* The current routes on one server process, with bodies of every shape.
NextBodies ==
    \/ nColl < FewColl /\ Create
    \/ \E r \in Reqs, k \in KnownKeys, body \in RejectedBodies : AddInvalid(r, k, body)
    \/ \E r \in Reqs, p \in OneProc, k \in KnownKeys, body \in AcceptedBodies :
          AddWatch(r, p, k, body)
    \/ \E r \in Reqs : AddGet(r)
    \/ \E r \in Reqs : AddUnwatch(r)
    \/ \E r \in Reqs : AddTtl(r)
    \/ \E r \in Reqs : AddExec(r)
    \/ \E r \in Reqs, p \in OneProc, k \in KnownKeys, id \in KnownIds : DelWatch(r, p, k, id)
    \/ \E r \in Reqs : DelGet(r)
    \/ \E r \in Reqs : DelUnwatch(r)
    \/ \E r \in Reqs : DelTtl(r)
    \/ \E r \in Reqs : DelExec(r)

SpecBodies == Init /\ [][NextBodies]_vars

\* The read route and the current add and delete routes on one server
\* process, with values under the keys that are no collection records.
NextCorrupt ==
    \/ nColl < FewColl /\ Create
    \/ \E k \in KnownKeys, raw \in Raws : Corrupt(k, raw)
    \/ \E r \in Reqs, k \in KnownKeys : Read(r, k)
    \/ \E r \in Reqs, p \in OneProc, k \in KnownKeys, body \in Bodies : AddWatch(r, p, k, body)
    \/ \E r \in Reqs : AddGet(r)
    \/ \E r \in Reqs : AddUnwatch(r)
    \/ \E r \in Reqs : AddTtl(r)
    \/ \E r \in Reqs : AddExec(r)
    \/ \E r \in Reqs, p \in OneProc, k \in KnownKeys, id \in KnownIds : DelWatch(r, p, k, id)
    \/ \E r \in Reqs : DelGet(r)
    \/ \E r \in Reqs : DelUnwatch(r)
    \/ \E r \in Reqs : DelTtl(r)
    \/ \E r \in Reqs : DelExec(r)

SpecCorrupt == Init /\ [][NextCorrupt]_vars

\* The routes as they stand under src/app/api/clip on one server process,
\* with the clock running.
NextRoutesT ==
    \/ nColl < FewColl /\ Create
    \/ \E r \in Reqs, p \in OneProc, k \in KnownKeys, body \in Bodies : AddWatch(r, p, k, body)
    \/ \E r \in Reqs : AddGet(r)
    \/ \E r \in Reqs : AddUnwatch(r)
    \/ \E r \in Reqs : AddTtl(r)
    \/ \E r \in Reqs : AddExec(r)
    \/ \E r \in Reqs, k \in KnownKeys, id \in KnownIds : PlainDelGet(r, k, id)
    \/ \E r \in Reqs : PlainDelTtl(r)
    \/ \E r \in Reqs : PlainDelSet(r)
    \/ \E d \in Deltas : Tick(d)

SpecRoutesT == Init /\ [][NextRoutesT]_vars

\* The read route next to the first add route, with the clock running and
\* values that are no collection records.
NextReads ==
    \/ nColl < FewColl /\ Create
    \/ \E k \in KnownKeys, raw \in Raws : Corrupt(k, raw)
    \/ \E r \in Reqs, k \in KnownKeys : Read(r, k)
    \/ \E r \in Reqs, k \in KnownKeys, body \in Bodies : FirstAddGet(r, k, body)
    \/ \E r \in Reqs : FirstAddSet(r)
    \/ \E d \in Deltas : Tick(d)

SpecReads == Init /\ [][NextReads]_vars

\* The create route of both revisions with every reply of its SET, with and
\* without a base URL, next to the read route.
NextCreate ==
    \/ \E r \in Reqs, baseUrl \in BaseUrls, setResult \in SetResults :
          CreateRoute(r, baseUrl, setResult)
    \/ \E r \in Reqs, baseUrl \in BaseUrls, setResult \in SetResults :
          CreateChecked(r, baseUrl, setResult)
    \/ \E r \in Reqs, k \in KnownKeys : Read(r, k)
    \/ \E d \in Deltas : Tick(d)

SpecCreate == Init /\ [][NextCreate]_vars

\* ================================================================ claims
Returned(r) == req[r].pc = "done"

\* The step in which request r returns.
Returns(r) == req[r].pc \notin {"idle", "done"} /\ req'[r].pc = "done"

\* A remaining lifetime as a number: a missing key below every TTL, a key
\* without expiry above every TTL.
Forever == 2 * expirationInSeconds

Lifetime(ttl) == IF ttl = TTL_NO_EXPIRY THEN Forever ELSE ttl

\* C1: the stored items of a collection are always the result of applying the
\* acknowledged requests (201 add, 200 delete), in commit order, to the empty
\* list: no acknowledged add is dropped, no acknowledged delete undone.
C1_AcknowledgedHistory ==
    \A k \in Keys : store[k].present => store[k].items = expected[k]

\* C2: of two adds on one collection that read the same prior record and both
\* reached exec, at most one returned 201 and at least one returned 409.
C2_OneWinner ==
    \A r1 \in Reqs, r2 \in Reqs :
        ( /\ r1 # r2
          /\ req[r1].op = "add" /\ req[r2].op = "add"
          /\ req[r1].proto = "watch" /\ req[r2].proto = "watch"
          /\ req[r1].collectionId = req[r2].collectionId
          /\ req[r1].readAt # Never /\ req[r1].readAt = req[r2].readAt
          /\ Returned(r1) /\ Returned(r2)
          /\ req[r1].status \in {201, 409} /\ req[r2].status \in {201, 409} )
        => /\ ~(req[r1].status = 201 /\ req[r2].status = 201)
           /\ (req[r1].status = 409 \/ req[r2].status = 409)

\* C3: a delete whose collection was written by another request between its
\* read and its write returns 409 and writes nothing.
C3_DeleteAbortsWhenStale ==
    [][ \A r \in Reqs :
          ( /\ req[r].op = "delete"
            /\ req[r].pc \in {"exec", "set"}
            /\ Returns(r)
            /\ ver[req[r].collectionId] # req[r].readAt )
          => (req'[r].status = 409 /\ store' = store) ]_vars

\* C4: between its watch and its exec a request's watch stays registered on
\* its connection, whatever other requests unwatch or exec, and a write to
\* the key after its read leaves the connection flagged.
C4_WatchIsolated ==
    \A r \in Reqs :
        (req[r].proto = "watch" /\ req[r].pc \in {"get", "ttl", "exec"})
        => /\ req[r].collectionId \in conn[req[r].proc].watching
           /\ ( (req[r].pc \in {"ttl", "exec"}
                 /\ ver[req[r].collectionId] # req[r].readAt)
                => conn[req[r].proc].dirty )

\* C5: when an add or delete on an existing collection returns, the key's
\* remaining lifetime is not larger than it was when the request arrived.
C5_TtlNeverIncreased ==
    [][ \A r \in Reqs :
          (Returns(r) /\ req[r].ttlBefore # TTL_NO_KEY)
          => Lifetime(RedisTTL(store', req[r].collectionId, now'))
                <= Lifetime(req[r].ttlBefore) ]_vars

\* C6: a collection is gone no later than 604800 seconds after its create.
C6_WithinBudget ==
    \A k \in Keys :
        store[k].present => now <= born[k] + expirationInSeconds * 1000

\* C7: every stored collection carries an expiry.
C7_EveryKeyExpires ==
    \A k \in Keys : store[k].present => store[k].exp # NoExpiry

\* The items of the adds that returned 201 on collection k among requests
\* 1..n, oldest first (requests are numbered in the order they arrive).
RECURSIVE AddedUpTo(_, _)
AddedUpTo(n, k) ==
    IF n = 0 THEN <<>>
    ELSE IF req[n].op = "add" /\ req[n].status = 201 /\ req[n].collectionId = k
    THEN AddedUpTo(n - 1, k) \o <<req[n].newItem>>
    ELSE AddedUpTo(n - 1, k)

Reverse(sq) == [i \in 1..Len(sq) |-> sq[Len(sq) + 1 - i]]

NoDeleteCommitted(k) ==
    \A r \in Reqs : ~(req[r].op = "delete" /\ req[r].status = 200
                      /\ req[r].collectionId = k)

\* C8: after non-overlapping adds and no delete, the stored items are the
\* added items, last added first.
C8_ReverseInsertionOrder ==
    \A k \in Keys :
        (store[k].present /\ NoDeleteCommitted(k))
        => store[k].items = Reverse(AddedUpTo(MaxReq, k))

\* C8 witness: three adds in a row were acknowledged on one collection.
C8_Witness ==
    \E k \in Keys :
        /\ store[k].present /\ NoDeleteCommitted(k)
        /\ Len(store[k].items) >= 3
        /\ \A r \in Reqs : Returned(r)

\* C9: a delete returns 200 only for an item that is in the collection's
\* items when the delete takes effect; otherwise it is not a success.
C9_NoSuccessForMissingItem ==
    [][ \A r \in Reqs :
          (req[r].op = "delete" /\ Returns(r) /\ req'[r].status = 200)
          => /\ store[req[r].collectionId].present
             /\ req[r].itemId \in ItemIds(store[req[r].collectionId].items) ]_vars

\* C10: a delete that returns 200 leaves the stored items equal to the items
\* stored just before it, without the item of that id and nothing else
\* removed, reordered or added.
C10_RemovesExactlyThatItem ==
    [][ \A r \in Reqs :
          (req[r].op = "delete" /\ Returns(r) /\ req'[r].status = 200)
          => LET k == req[r].collectionId
                 Keep(it) == it.id # req[r].itemId
             IN /\ store[k].present /\ store'[k].present
                /\ store'[k].items = SelectSeq(store[k].items, Keep)
                /\ Len(store'[k].items) = Len(store[k].items) - 1 ]_vars

\* The step in which request slot r serves a read.
Reads(r) == req[r].pc = "idle" /\ req'[r].op = "read"

\* C11: a read of a created collection that nothing has written since its
\* create, and that has not expired, returns 200 with a record whose id is
\* the collection's id and whose items are empty.
C11_ReadAfterCreate ==
    [][ \A r \in Reqs :
          LET k == req'[r].collectionId IN
          (Reads(r) /\ store[k].present /\ ver[k] = 1)
          => /\ req'[r].status = 200
             /\ req'[r].currentCollection.id = k
             /\ req'[r].currentCollection.items = <<>> ]_vars

\* C11 witness: a read of a freshly created collection has returned 200.
C11_Witness ==
    \E r \in Reqs :
        /\ req[r].op = "read" /\ Returned(r)
        /\ req[r].readAt = 1 /\ req[r].status = 200
        /\ req[r].collectionId \in 1..nColl

\* C12: the step of a create leaves the new key stored with a TTL of 604800
\* seconds, and in no state is a key that only its create has written
\* stored without an expiry.
C12_CreateWithTtl ==
    [][ /\ (nColl' = nColl + 1
            => /\ store'[nColl'].present
               /\ RedisTTL(store', nColl', now') = 604800
               /\ store'[nColl'].exp = now' + 604800 * 1000)
        /\ \A k \in Keys :
              (store'[k].present /\ ver'[k] = 1) => store'[k].exp # NoExpiry ]_vars

\* C12 witness: a request has read a collection that only its create had
\* written, and the key carries the expiry of its create.
C12_Witness ==
    \E r \in Reqs :
        /\ Returned(r) /\ req[r].readAt = 1
        /\ store[req[r].collectionId].present
        /\ store[req[r].collectionId].exp
              = born[req[r].collectionId] + expirationInSeconds * 1000

InFlight(r) == req[r].pc \notin {"idle", "done"}

\* C13: a connection watches a key only while a request that watched it on
\* that connection is still running: whatever way a request returns, its
\* watch is gone with it.
C13_WatchReleased ==
    \A p \in Procs : \A k \in conn[p].watching :
        \E r \in Reqs : InFlight(r) /\ req[r].proc = p /\ req[r].collectionId = k

\* C14: the first stored item of a non-empty collection is the item of the
\* latest acknowledged add, among the items no acknowledged delete removed.
C14_NewestFirst ==
    \A k \in Keys :
        (store[k].present /\ store[k].items # <<>>)
        => /\ expected[k] # <<>>
           /\ store[k].items[1] = expected[k][1]

\* C15: no two items stored in one collection have the same id.
C15_UniqueIds ==
    \A k \in Keys :
        store[k].present => Cardinality(ItemIds(store[k].items)) = Len(store[k].items)

\* C15 witness: a collection holds two items, one of them from a body that
\* brought an id of its own.
C15_Witness ==
    \E k \in Keys, r \in Reqs :
        /\ store[k].present /\ Len(store[k].items) >= 2
        /\ req[r].status = 201 /\ req[r].newItemData.id # NoSuchId
        /\ req[r].newItem.id \in ItemIds(store[k].items)

\* C16: every stored item carries htmlContent exactly when its type is html.
C16_HtmlContentIffHtml ==
    \A k \in Keys : \A i \in 1..Len(store[k].items) :
        (store[k].items[i].htmlContent # Undefined) <=> (store[k].items[i].type = "html")

\* The step in which request r gets the value under its key.
Gets(r) ==
    \/ Reads(r)
    \/ req[r].pc = "get" /\ req'[r].pc # "get"

\* C17: a request that gets a value that is not a collection record ends
\* with 500: a read returns it at once, an add or delete is left with
\* nothing but its unwatch to do, and none of them writes.
C17_CorruptedIs500 ==
    [][ \A r \in Reqs :
          LET k == req'[r].collectionId IN
          /\ (Gets(r) /\ store[k].present /\ store[k].raw # "record")
             => /\ req'[r].status = 500
                /\ req'[r].pc \in {"unwatch", "done"}
                /\ store' = store
          /\ (req[r].pc = "unwatch" /\ Returns(r))
             => /\ req'[r].status = req[r].status
                /\ store' = store ]_vars

\* The step in which request slot r takes an add request.
Arrives(r) == req[r].pc = "idle" /\ req'[r].op = "add"

\* C18: the outcome of an add follows the table.  A body without a type or
\* without string content is answered 400 in the step it arrives, with the
\* store and the connections untouched, and no other body is answered 400;
\* the get of an absent key leads to 404 (500 if the get itself rejects)
\* and nothing else leads to 404; an exec the
\* store aborts is answered 409 without a write and nothing else is; 201
\* is answered only in the step that commits the list read with the new
\* item in front; every other outcome is 500.
C18_AddOutcomes ==
    [][ \A r \in Reqs :
          LET k == req'[r].collectionId
              p == req[r].proc
              bad == req'[r].newItemData.content = Undefined
                        \/ req'[r].newItemData.type = Undefined
          IN
          /\ Arrives(r)
             => IF bad
                THEN req'[r].pc = "done" /\ req'[r].status = 400
                     /\ store' = store /\ conn' = conn
                ELSE req'[r].status # 400
          /\ (req[r].op = "add" /\ Gets(r))
             => /\ req'[r].status = 404 => ~store[k].present
                /\ ~store[k].present => req'[r].status \in {404, 500}
          /\ (req[r].op = "add" /\ Returns(r))
             => /\ req'[r].status \in {201, 404, 409, 500}
                /\ req'[r].status = 409
                     <=> (req[r].pc = "exec" /\ conn[p].dirty)
                /\ req'[r].status = 409 => store' = store
                /\ req'[r].status = 404 => req[r].status = 404
                /\ req'[r].status = 201
                     => /\ req[r].pc = "exec"
                        /\ ver'[k] = ver[k] + 1
                        /\ store'[k].present
                        /\ store'[k].items
                             = <<req[r].newItem>> \o req[r].currentCollection.items
                /\ req'[r].status # 201 => store' = store ]_vars

\* C18 witness: of three adds one was rejected for its body, one lost its
\* transaction and one was committed.
C18_Witness ==
    \E r1, r2, r3 \in Reqs :
        /\ req[r1].op = "add" /\ req[r1].status = 400
        /\ req[r2].op = "add" /\ req[r2].status = 409
        /\ req[r3].op = "add" /\ req[r3].status = 201

\* Request r is the only request there has been on its collection.
AloneOnCollection(r) ==
    \A q \in Reqs \ {r} :
        req[q].pc = "idle" \/ req[q].collectionId # req[r].collectionId

\* C19: a step of a request on one collection leaves the value and expiry of
\* every other collection as they were, and a request that is the only one
\* on its collection, which existed when it arrived, is never answered 409,
\* whatever happens to other collections.
C19_CollectionsIndependent ==
    [][ \A r \in Reqs :
          /\ (InFlight(r) /\ req'[r] # req[r])
             => \A y \in Keys \ {req[r].collectionId} : store'[y] = store[y]
          /\ (Returns(r) /\ req[r].ttlBefore # TTL_NO_KEY /\ AloneOnCollection(r))
             => req'[r].status # 409 ]_vars

\* C20: the item an add returns with 201 has the type and content of the
\* request body, an id the server handed out to no other
\* request and a createdAt read from the server's clock, whatever the body
\* says about id and createdAt; and it is the first item of the stored
\* record in the state the commit leaves.
C20_ReturnedItem ==
    [][ \A r \in Reqs :
          (req[r].op = "add" /\ Returns(r) /\ req'[r].status = 201)
          => LET item == req'[r].newItem
                 body == req'[r].newItemData
                 k == req[r].collectionId
             IN /\ item.type = body.type
                /\ item.content = body.content
                /\ item.id \in 1..(nextId - 1)
                /\ \A q \in Reqs \ {r} : req[q].newItem.id # item.id
                /\ item.createdAt \in 0..now
                /\ store'[k].present
                /\ store'[k].items # <<>>
                /\ store'[k].items[1] = item ]_vars

\* C20 witness: an add whose body brought an id and a createdAt of its own
\* was committed and its item is the first of the stored record.
C20_Witness ==
    \E r \in Reqs :
        /\ req[r].op = "add" /\ req[r].status = 201
        /\ req[r].newItemData.id # NoSuchId
        /\ req[r].newItemData.createdAt # Never
        /\ store[req[r].collectionId].present
        /\ store[req[r].collectionId].items # <<>>
        /\ store[req[r].collectionId].items[1] = req[r].newItem

\* What a request at its commit step is about to write.
AboutToWrite(r) ==
    IF req[r].op = "add"
    THEN UpdatedCollection(req[r].currentCollection,
                           Prepend(req[r].newItem, req[r].currentCollection.items))
    ELSE UpdatedCollection(req[r].currentCollection,
                           FilterOut(req[r].currentCollection.items, req[r].itemId))

Succeeds(r) == Returns(r) /\ req'[r].status \in {200, 201}

\* C22: no step of an add or delete changes the value or the expiry of any
\* key, except the step in which the request returns 200 or 201: a request
\* that returns 404, 409 or 500 has written nothing.
C22_FailureWritesNothing ==
    [][ \A r \in Reqs :
          (req[r].op \in {"add", "delete"} /\ req'[r] # req[r] /\ ~Succeeds(r))
          => store' = store ]_vars

\* C22 witness: on a stored collection one request lost its transaction and
\* another was answered 500 for a store command that rejected after the
\* record had been read.
C22_Witness ==
    \E r1, r2 \in Reqs :
        /\ req[r1].status = 409
        /\ req[r2].status = 500 /\ req[r2].readAt # Never
        /\ req[r1].collectionId = req[r2].collectionId
        /\ store[req[r1].collectionId].present

\* C23: an add or delete that finds its key absent is answered 404, and no
\* step but a create stores a record under a key that held none: a key
\* that expired while a request was on its way stays absent.
C23_NeverRecreated ==
    [][ /\ \A r \in Reqs :
              LET k == req'[r].collectionId IN
              (req'[r].op \in {"add", "delete"} /\ Gets(r) /\ ~store[k].present)
              => req'[r].status = 404 /\ store' = store
        /\ \A k \in Keys :
              (~store[k].present /\ store'[k].present) => nColl' = nColl + 1 ]_vars

\* C24: an add or delete whose key nothing has written since its watch is
\* not answered 409 by its exec: it commits.
C24_AbortsOnlyWhenModified ==
    [][ \A r \in Reqs :
          ( /\ req[r].proto = "watch" /\ req[r].pc = "exec" /\ Returns(r)
            /\ ver[req[r].collectionId] = req[r].watchedAt )
          => /\ req'[r].status # 409
             /\ req'[r].status \in {200, 201}
                  => ver'[req[r].collectionId] = req[r].watchedAt + 1 ]_vars

\* How far a handler has come: the awaits of a route in the order of its code.
Rank(pc) ==
    CASE pc = "idle" -> 0
      [] pc = "get" -> 1
      [] pc = "ttl" -> 2
      [] pc \in {"exec", "set"} -> 3
      [] pc = "unwatch" -> 4
      [] pc = "done" -> 5

\* C25: a handler only moves forward through its awaits, so it gets, and
\* execs or sets, at most once; the step of its exec or set is its last
\* store command but an unwatch, and an exec answered 409 writes nothing
\* and leaves the request returned for good.
C25_SingleAttempt ==
    [][ \A r \in Reqs :
          /\ req'[r] # req[r] => Rank(req'[r].pc) > Rank(req[r].pc)
          /\ (req[r].pc \in {"exec", "set"} /\ req'[r] # req[r])
             => req'[r].pc \in {"unwatch", "done"}
          /\ (Returns(r) /\ req'[r].status = 409)
             => /\ store' = store /\ ver' = ver
                /\ req[r].pc = "exec" ]_vars

\* C25 witness: an add was answered 409 and the record of the add that won
\* still heads the stored items.
C25_Witness ==
    \E r, q \in Reqs :
        /\ req[r].op = "add" /\ req[r].pc = "done" /\ req[r].status = 409
        /\ req[q].op = "add" /\ req[q].status = 201
        /\ req[q].collectionId = req[r].collectionId
        /\ store[req[r].collectionId].items = <<req[q].newItem>>

\* C26: the step in which a transactional add or delete commits stores the
\* record it built and, when the TTL it read is positive, leaves the key
\* with exactly that TTL; when the TTL it read is not positive (0, -1 or
\* -2) the key has no expiry after the commit.
C26_TtlCarriedOver ==
    [][ \A r \in Reqs :
          (req[r].proto = "watch" /\ req[r].pc = "exec" /\ Succeeds(r))
          => LET k == req[r].collectionId IN
             /\ RedisGet(store', k) = AboutToWrite(r)
             /\ IF req[r].currentTTL > 0
                THEN /\ store'[k].exp = now + req[r].currentTTL * 1000
                     /\ RedisTTL(store', k, now') = req[r].currentTTL
                ELSE /\ store'[k].exp = NoExpiry
                     /\ RedisTTL(store', k, now') = TTL_NO_EXPIRY ]_vars

\* C26 witness: a committed add or delete has left a key without expiry,
\* and the key is there at the end of the lifetime its create gave it.
C26_Witness ==
    \E r \in Reqs :
        LET k == req[r].collectionId IN
        /\ req[r].proto = "watch" /\ req[r].status \in {200, 201}
        /\ store[k].present /\ store[k].exp = NoExpiry
        /\ now >= born[k] + expirationInSeconds * 1000

\* C27: the step in which an add or delete commits leaves the id and the
\* createdAt of the stored collection as they were, and after an add the
\* stored items are the new item followed by the items stored just before,
\* each unchanged and in the same order.
C27_FrameOfMutations ==
    [][ \A r \in Reqs :
          (req[r].op \in {"add", "delete"} /\ Succeeds(r))
          => LET k == req[r].collectionId IN
             /\ store[k].present /\ store'[k].present
             /\ store'[k].id = store[k].id
             /\ store'[k].createdAt = store[k].createdAt
             /\ req[r].op = "add"
                => store'[k].items = <<req[r].newItem>> \o store[k].items ]_vars

\* C28: the step of a read, whatever it returns, leaves the value and the
\* expiry of every key, and so the TTL of the key read, as they were.
C28_ReadChangesNothing ==
    [][ \A r \in Reqs :
          Reads(r)
          => /\ store' = store
             /\ RedisTTL(store', req'[r].collectionId, now')
                  = RedisTTL(store, req'[r].collectionId, now)
             /\ conn' = conn /\ ver' = ver ]_vars

\* C28 witness: reads have returned 200 and 500 on a collection late in its
\* lifetime, and the key still carries the expiry of its create.
C28_Witness ==
    \E r1, r2 \in Reqs :
        LET k == req[r1].collectionId IN
        /\ req[r1].op = "read" /\ req[r1].status = 200
        /\ req[r2].op = "read" /\ req[r2].status = 500
        /\ req[r2].collectionId = k
        /\ now > born[k] + 1000
        /\ store[k].present
        /\ store[k].exp = born[k] + expirationInSeconds * 1000

\* The step in which request slot r serves a create.
Creates(r) == req[r].pc = "idle" /\ req'[r].op = "create"

C30_ClosedTypeSet ==
    [][ /\ \A r \in Reqs :
              (Arrives(r) /\ req'[r].newItemData.type \notin ItemTypes)
              => req'[r].status = 400 /\ req'[r].pc = "done"
        /\ \A k \in Keys : \A i \in 1..Len(store'[k].items) :
              store'[k].items[i].type \in ItemTypes ]_vars

====
